---- MODULE Spec2Model ----
(***************************************************************************)
(* Temperature-unit helpers of src/src/temperatureConversion.ts:           *)
(* normalizeTemperatureUnit, convertTemperatureValue,                      *)
(* resolveTemperatureTargetUnit, toTemperatureUnitSymbol and               *)
(* isTemperatureAttribute, each applied by a caller to arguments drawn     *)
(* from bounded sets.                                                      *)
(*                                                                         *)
(* A JavaScript string is the sequence of its characters (one-character    *)
(* strings); undefined and null are the one-element sequences              *)
(* <<"undefined">> and <<"null">>, which no character sequence equals.     *)
(* A JavaScript number is an exact rational <<n, d>> in lowest terms with  *)
(* d > 0: the arithmetic of the converter tables is modelled without       *)
(* floating-point rounding.                                                *)
(***************************************************************************)
EXTENDS Integers, Sequences, FiniteSets, TLC

VARIABLES pc, fn, unit, value, fromUnit, toUnit, systemConversion,
          deviceConversion, clusterName, attributeName,
          normalized, conversion, target, symbol, isTemperature, origin

vars == <<pc, fn, unit, value, fromUnit, toUnit, systemConversion,
          deviceConversion, clusterName, attributeName,
          normalized, conversion, target, symbol, isTemperature, origin>>

(***************************************************************************)
(* Bounds of the inputs.                                                   *)
(***************************************************************************)
\* numerators of the sampled temperatures range over -MaxTemp..MaxTemp
MaxTemp == 1
\* denominators of the sampled temperatures range over 1..MaxDen
MaxDen == 2

(***************************************************************************)
(* JavaScript values.                                                      *)
(***************************************************************************)
Undefined == <<"undefined">>

Null == <<"null">>

\* !x for a string | null | undefined
Falsy(s) == s = Undefined \/ s = Null \/ s = <<>>

UpperLetters == <<"A", "B", "C", "D", "E", "F", "G", "H", "I", "J", "K", "L", "M", "N", "O", "P", "Q", "R", "S", "T", "U", "V", "W", "X", "Y", "Z">>

LowerLetters == <<"a", "b", "c", "d", "e", "f", "g", "h", "i", "j", "k", "l", "m", "n", "o", "p", "q", "r", "s", "t", "u", "v", "w", "x", "y", "z">>

WhiteSpace == {" ", "\t", "\n"}

toUpperCaseChar(c) ==
  IF \E i \in 1..26 : LowerLetters[i] = c
  THEN UpperLetters[CHOOSE i \in 1..26 : LowerLetters[i] = c]
  ELSE c

toLowerCaseChar(c) ==
  IF \E i \in 1..26 : UpperLetters[i] = c
  THEN LowerLetters[CHOOSE i \in 1..26 : UpperLetters[i] = c]
  ELSE c

\* mutant: the text is not upper-cased
toUpperCase_Omitted(s) == s

\* String.prototype.toUpperCase
toUpperCase(s) == [i \in 1..Len(s) |-> toUpperCaseChar(s[i])]

\* String.prototype.toLowerCase
toLowerCase(s) == [i \in 1..Len(s) |-> toLowerCaseChar(s[i])]

\* String.prototype.replaceAll(c, r) for a one-character pattern c
RECURSIVE replaceAll(_, _, _)
replaceAll(s, c, r) ==
  IF s = <<>> THEN <<>>
  ELSE (IF Head(s) = c THEN r ELSE <<Head(s)>>) \o replaceAll(Tail(s), c, r)

RECURSIVE trimStart(_)
trimStart(s) ==
  IF s # <<>> /\ Head(s) \in WhiteSpace THEN trimStart(Tail(s)) ELSE s

RECURSIVE trimEnd(_)
trimEnd(s) ==
  IF s # <<>> /\ s[Len(s)] \in WhiteSpace
  THEN trimEnd(SubSeq(s, 1, Len(s) - 1)) ELSE s

\* String.prototype.trim
trim(s) == trimEnd(trimStart(s))

(***************************************************************************)
(* Numbers: exact rationals.                                               *)
(***************************************************************************)
Abs(n) == IF n < 0 THEN -n ELSE n

RECURSIVE Gcd(_, _)
Gcd(a, b) == IF b = 0 THEN a ELSE Gcd(b, a % b)

\* the rational n/d (d # 0) in lowest terms with a positive denominator
Rat(n, d) ==
  LET g == Gcd(Abs(n), Abs(d))
      s == IF d < 0 THEN -1 ELSE 1
  IN <<(s * n) \div g, (s * d) \div g>>

Num(n) == <<n, 1>>

RatAdd(a, b) == Rat(a[1] * b[2] + b[1] * a[2], a[2] * b[2])

RatSub(a, b) == Rat(a[1] * b[2] - b[1] * a[2], a[2] * b[2])

RatMul(a, b) == Rat(a[1] * b[1], a[2] * b[2])

RatDiv(a, b) == Rat(a[1] * b[2], a[2] * b[1])

(***************************************************************************)
(* The converter tables and the normalisation map.                         *)
(***************************************************************************)
CelsiusUnits ==
  << <<"C">>,
     <<"C", "E", "L", "S", "I", "U", "S">>,
     <<"D", "E", "G", "R", "E", "E", "_", "C", "E", "L", "S", "I", "U", "S">>,
     <<"D", "E", "G", "R", "E", "E", "S", "_", "C", "E", "L", "S", "I", "U", "S">>,
     <<"°", "C">> >>

FahrenheitUnits ==
  << <<"F">>,
     <<"F", "A", "H", "R", "E", "N", "H", "E", "I", "T">>,
     <<"D", "E", "G", "R", "E", "E", "_", "F", "A", "H", "R", "E", "N", "H", "E", "I", "T">>,
     <<"D", "E", "G", "R", "E", "E", "S", "_", "F", "A", "H", "R", "E", "N", "H", "E", "I", "T">>,
     <<"°", "F">> >>

\* toCelsius of the Celsius entry: (value) => value
celsiusToCelsius(v) == v

\* mutant: value - (32 * 5) / 9
fahrenheitToCelsius_Unparenthesized(v) ==
  RatSub(v, RatDiv(RatMul(Num(32), Num(5)), Num(9)))

\* toCelsius of the Fahrenheit entry: (value) => ((value - 32) * 5) / 9
fahrenheitToCelsius(v) == RatDiv(RatMul(RatSub(v, Num(32)), Num(5)), Num(9))

\* fromCelsius of the Celsius entry: (value) => value
celsiusFromCelsius(v) == v

\* mutant: value * (5 / 9) + 32
fahrenheitFromCelsius_InverseRatio(v) ==
  RatAdd(RatMul(v, RatDiv(Num(5), Num(9))), Num(32))

\* fromCelsius of the Fahrenheit entry: (value) => value * (9 / 5) + 32
fahrenheitFromCelsius(v) == RatAdd(RatMul(v, RatDiv(Num(9), Num(5))), Num(32))

temperatureFromUnits ==
  << [units |-> CelsiusUnits, toCelsius |-> "celsius"],
     [units |-> FahrenheitUnits, toCelsius |-> "fahrenheit"] >>

temperatureToUnits ==
  << [units |-> CelsiusUnits, fromCelsius |-> "celsius"],
     [units |-> FahrenheitUnits, fromCelsius |-> "fahrenheit"] >>

\* converter.toCelsius(value)
toCelsius(converter, v) ==
  IF converter.toCelsius = "celsius" THEN celsiusToCelsius(v)
  ELSE fahrenheitToCelsius(v)

\* converter.fromCelsius(value)
fromCelsius(converter, v) ==
  IF converter.fromCelsius = "celsius" THEN celsiusFromCelsius(v)
  ELSE fahrenheitFromCelsius(v)

NORMALIZED_UNIT_MAP ==
  (<<"C", "E", "L", "S", "I", "U", "S">> :> <<"C">>) @@ (<<"C">> :> <<"C">>) @@
  (<<"F", "A", "H", "R", "E", "N", "H", "E", "I", "T">> :> <<"F">>) @@ (<<"F">> :> <<"F">>)

\* Array.prototype.includes
includes(list, x) == \E i \in 1..Len(list) : list[i] = x

(***************************************************************************)
(* The exported functions.                                                 *)
(***************************************************************************)
normalizeTemperatureUnit(u) ==
  IF Falsy(u) THEN Undefined
  ELSE LET n == trim(replaceAll(replaceAll(replaceAll(toUpperCase(u),
                      "°", <<>>), "-", <<"_">>), " ", <<"_">>))
       IN IF n \in DOMAIN NORMALIZED_UNIT_MAP THEN NORMALIZED_UNIT_MAP[n] ELSE n

\* the index of the first matching entry of temperatureFromUnits, 0 for undefined
findFromConverter(u) ==
  LET n == normalizeTemperatureUnit(u)
      hits == {i \in 1..Len(temperatureFromUnits) :
                 includes(temperatureFromUnits[i].units, n)}
  IN IF Falsy(n) \/ hits = {} THEN 0
     ELSE CHOOSE i \in hits : \A j \in hits : i <= j

\* the index of the first matching entry of temperatureToUnits, 0 for undefined
findToConverter(u) ==
  LET n == normalizeTemperatureUnit(u)
      hits == {i \in 1..Len(temperatureToUnits) :
                 includes(temperatureToUnits[i].units, n)}
  IN IF Falsy(n) \/ hits = {} THEN 0
     ELSE CHOOSE i \in hits : \A j \in hits : i <= j

\* mutant: the normalized unit is reported whatever it is
unitIfKnown_Unchecked(n) == n

\* normalizedX === 'C' || normalizedX === 'F' ? normalizedX : undefined
unitIfKnown(n) == IF n = <<"C">> \/ n = <<"F">> THEN n ELSE Undefined

\* mutant: equal source and target units are not short-circuited
convertTemperatureValue_NoSameUnitCheck(v, from, to) ==
  LET normalizedFrom == normalizeTemperatureUnit(from)
      normalizedTo == normalizeTemperatureUnit(to)
      unconverted == [value |-> v, converted |-> FALSE,
                      unit |-> unitIfKnown(normalizedFrom)]
  IN IF Falsy(normalizedTo) \/ Falsy(normalizedFrom)
     THEN unconverted
     ELSE LET fromConverter == findFromConverter(normalizedFrom)
              toConverter == findToConverter(normalizedTo)
          IN IF fromConverter = 0 \/ toConverter = 0
             THEN unconverted
             ELSE [value |-> fromCelsius(temperatureToUnits[toConverter],
                               toCelsius(temperatureFromUnits[fromConverter], v)),
                   converted |-> TRUE,
                   unit |-> unitIfKnown(normalizedTo)]

convertTemperatureValue(v, from, to) ==
  LET normalizedFrom == normalizeTemperatureUnit(from)
      normalizedTo == normalizeTemperatureUnit(to)
      unconverted == [value |-> v, converted |-> FALSE,
                      unit |-> unitIfKnown(normalizedFrom)]
  IN IF Falsy(normalizedTo) \/ Falsy(normalizedFrom)
        \/ normalizedFrom = normalizedTo
     THEN unconverted
     ELSE LET fromConverter == findFromConverter(normalizedFrom)
              toConverter == findToConverter(normalizedTo)
          IN IF fromConverter = 0 \/ toConverter = 0
             THEN unconverted
             ELSE LET celsiusValue ==
                        toCelsius(temperatureFromUnits[fromConverter], v)
                      converted ==
                        fromCelsius(temperatureToUnits[toConverter], celsiusValue)
                  IN [value |-> converted, converted |-> TRUE,
                      unit |-> unitIfKnown(normalizedTo)]

\* mutant: the system setting is consulted before the device setting
resolveTemperatureTargetUnit_SystemFirst(sys, dev) ==
  IF sys = "celsius" THEN <<"C">>
  ELSE IF sys = "fahrenheit" THEN <<"F">>
  ELSE IF dev = "force_celsius" THEN <<"C">>
  ELSE IF dev = "force_fahrenheit" THEN <<"F">>
  ELSE Undefined

resolveTemperatureTargetUnit(sys, dev) ==
  IF dev = "none" THEN Undefined
  ELSE IF dev = "force_celsius" THEN <<"C">>
  ELSE IF dev = "force_fahrenheit" THEN <<"F">>
  ELSE IF sys = "celsius" THEN <<"C">>
  ELSE IF sys = "fahrenheit" THEN <<"F">>
  ELSE Undefined

\* mutant: the unit is compared without being normalized
toTemperatureUnitSymbol_NotNormalized(u) ==
  IF u = <<"C">> THEN <<"°", "C">>
  ELSE IF u = <<"F">> THEN <<"°", "F">>
  ELSE <<>>

toTemperatureUnitSymbol(u) ==
  LET n == normalizeTemperatureUnit(u)
  IN IF n = <<"C">> THEN <<"°", "C">>
     ELSE IF n = <<"F">> THEN <<"°", "F">>
     ELSE <<>>

TemperatureMeasurementAttribute == <<"m", "e", "a", "s", "u", "r", "e", "d", "V", "a", "l", "u", "e">>

ThermostatAttributes ==
  << <<"l", "o", "c", "a", "l", "T", "e", "m", "p", "e", "r", "a", "t", "u", "r", "e">>,
     <<"o", "u", "t", "d", "o", "o", "r", "T", "e", "m", "p", "e", "r", "a", "t", "u", "r", "e">>,
     <<"o", "c", "c", "u", "p", "i", "e", "d", "H", "e", "a", "t", "i", "n", "g", "S", "e", "t", "p", "o", "i", "n", "t">>,
     <<"o", "c", "c", "u", "p", "i", "e", "d", "C", "o", "o", "l", "i", "n", "g", "S", "e", "t", "p", "o", "i", "n", "t">>,
     <<"u", "n", "o", "c", "c", "u", "p", "i", "e", "d", "H", "e", "a", "t", "i", "n", "g", "S", "e", "t", "p", "o", "i", "n", "t">>,
     <<"u", "n", "o", "c", "c", "u", "p", "i", "e", "d", "C", "o", "o", "l", "i", "n", "g", "S", "e", "t", "p", "o", "i", "n", "t">>,
     <<"a", "b", "s", "M", "i", "n", "H", "e", "a", "t", "S", "e", "t", "p", "o", "i", "n", "t", "L", "i", "m", "i", "t">>,
     <<"a", "b", "s", "M", "a", "x", "H", "e", "a", "t", "S", "e", "t", "p", "o", "i", "n", "t", "L", "i", "m", "i", "t">>,
     <<"a", "b", "s", "M", "i", "n", "C", "o", "o", "l", "S", "e", "t", "p", "o", "i", "n", "t", "L", "i", "m", "i", "t">>,
     <<"a", "b", "s", "M", "a", "x", "C", "o", "o", "l", "S", "e", "t", "p", "o", "i", "n", "t", "L", "i", "m", "i", "t">>,
     <<"m", "i", "n", "H", "e", "a", "t", "S", "e", "t", "p", "o", "i", "n", "t", "L", "i", "m", "i", "t">>,
     <<"m", "a", "x", "H", "e", "a", "t", "S", "e", "t", "p", "o", "i", "n", "t", "L", "i", "m", "i", "t">>,
     <<"m", "i", "n", "C", "o", "o", "l", "S", "e", "t", "p", "o", "i", "n", "t", "L", "i", "m", "i", "t">>,
     <<"m", "a", "x", "C", "o", "o", "l", "S", "e", "t", "p", "o", "i", "n", "t", "L", "i", "m", "i", "t">> >>

\* mutant: the cluster name is compared without being lower-cased
isTemperatureAttribute_CaseSensitiveCluster(cluster, attribute) ==
  IF cluster = <<"t", "e", "m", "p", "e", "r", "a", "t", "u", "r", "e",
                  "m", "e", "a", "s", "u", "r", "e", "m", "e", "n", "t">>
  THEN attribute = TemperatureMeasurementAttribute
  ELSE IF cluster # <<"t", "h", "e", "r", "m", "o", "s", "t", "a", "t">> THEN FALSE
  ELSE includes(ThermostatAttributes, attribute)

isTemperatureAttribute(cluster, attribute) ==
  LET c == toLowerCase(cluster)
  IN IF c = <<"t", "e", "m", "p", "e", "r", "a", "t", "u", "r", "e", "m", "e", "a", "s", "u", "r", "e", "m", "e", "n", "t">>
     THEN attribute = TemperatureMeasurementAttribute
     ELSE IF c # <<"t", "h", "e", "r", "m", "o", "s", "t", "a", "t">> THEN FALSE
     ELSE includes(ThermostatAttributes, attribute)

(***************************************************************************)
(* The arguments the callers pass.                                         *)
(***************************************************************************)
TemperatureConversionTarget == {"none", "celsius", "fahrenheit"}

TemperatureDeviceConversionMode ==
  {"follow_system", "none", "force_celsius", "force_fahrenheit"}

CaseStyles == {"upper", "lower", "mixed"}

Separators == {"_", "-", " "}

\* the alias `base` (upper case, words joined by "_") as a caller may write it
Styled(base, style, sep) ==
  [i \in 1..Len(base) |->
     IF base[i] = "_" THEN sep
     ELSE IF style = "upper" \/ (style = "mixed" /\ i % 2 = 1) THEN base[i]
     ELSE toLowerCaseChar(base[i])]

Variants(base) == {Styled(base, st, sep) : st \in CaseStyles, sep \in Separators}

CelsiusAliases == UNION {Variants(CelsiusUnits[i]) : i \in 1..Len(CelsiusUnits)}

FahrenheitAliases ==
  UNION {Variants(FahrenheitUnits[i]) : i \in 1..Len(FahrenheitUnits)}

\* the aliases the normalisation map folds to a single letter
ShortCelsiusAliases == Variants(<<"C">>) \cup Variants(<<"C", "E", "L", "S", "I", "U", "S">>) \cup Variants(<<"°", "C">>)

ShortFahrenheitAliases == Variants(<<"F">>) \cup Variants(<<"F", "A", "H", "R", "E", "N", "H", "E", "I", "T">>) \cup Variants(<<"°", "F">>)

\* unit texts that are no listed alias
OtherUnits ==
  Variants(<<"K">>) \cup Variants(<<"K", "E", "L", "V", "I", "N">>)
  \cup { <<"°">>, <<"c", "°">>, <<" ", "F">>, <<"\t", "C", "\t">>, <<"\t", "f", "a", "h", "r", "e", "n", "h", "e", "i", "t">>, <<"c", "e", "n", "t", "i", "g", "r", "a", "d", "e">> }

MissingUnits == {Undefined, Null, <<>>}

InputUnits == CelsiusAliases \cup FahrenheitAliases \cup OtherUnits \cup MissingUnits

InputValues ==
  {Num(-40), Num(0), Num(10), Num(212)}
  \cup {Rat(n, d) : n \in (-MaxTemp)..MaxTemp, d \in 1..MaxDen}

InputClusters ==
  { <<"T", "e", "m", "p", "e", "r", "a", "t", "u", "r", "e", "M", "e", "a", "s", "u", "r", "e", "m", "e", "n", "t">>,
    <<"t", "e", "m", "p", "e", "r", "a", "t", "u", "r", "e", "m", "e", "a", "s", "u", "r", "e", "m", "e", "n", "t">>,
    <<"t", "e", "m", "p", "e", "r", "a", "t", "u", "r", "e", "M", "e", "a", "s", "u", "r", "e", "m", "e", "n", "t">>,
    <<"T", "E", "M", "P", "E", "R", "A", "T", "U", "R", "E", "M", "E", "A", "S", "U", "R", "E", "M", "E", "N", "T">>,
    <<"T", "h", "e", "r", "m", "o", "s", "t", "a", "t">>,
    <<"t", "h", "e", "r", "m", "o", "s", "t", "a", "t">>,
    <<"T", "H", "E", "R", "M", "O", "S", "T", "A", "T">>,
    <<"O", "n", "O", "f", "f">>,
    <<"T", "h", "e", "r", "m", "o", "s", "t", "a", "t", "s">>,
    <<>> }

ListedAttributes ==
  {TemperatureMeasurementAttribute}
  \cup {ThermostatAttributes[i] : i \in 1..Len(ThermostatAttributes)}

\* a listed name with its first letter in upper case
Capitalized(s) == [i \in 1..Len(s) |-> IF i = 1 THEN toUpperCaseChar(s[i]) ELSE s[i]]

InputAttributes ==
  ListedAttributes
  \cup {toLowerCase(a) : a \in ListedAttributes}
  \cup {Capitalized(a) : a \in ListedAttributes}
  \cup { <<"s", "y", "s", "t", "e", "m", "M", "o", "d", "e">>, <<"o", "n", "O", "f", "f">>, <<"o", "t", "h", "e", "r">>, <<>> }

NoConversion == [value |-> Num(0), converted |-> FALSE, unit |-> Undefined]

NoOrigin == [value |-> Num(0), conversion |-> NoConversion]

(***************************************************************************)
(* The callers: one call of one exported function on drawn arguments, and  *)
(* for convertTemperatureValue a second call that converts the result      *)
(* back.                                                                   *)
(***************************************************************************)
Init ==
  /\ pc = "ready"
  /\ fn \in {"normalizeTemperatureUnit", "convertTemperatureValue",
              "resolveTemperatureTargetUnit", "toTemperatureUnitSymbol",
              "isTemperatureAttribute"}
  /\ unit \in InputUnits
  /\ fn \notin {"normalizeTemperatureUnit", "toTemperatureUnitSymbol"}
       => unit = Undefined
  /\ value \in InputValues
  /\ fromUnit \in InputUnits
  /\ toUnit \in InputUnits
  /\ fn # "convertTemperatureValue"
       => value = Num(0) /\ fromUnit = Undefined /\ toUnit = Undefined
  /\ systemConversion \in TemperatureConversionTarget
  /\ deviceConversion \in TemperatureDeviceConversionMode
  /\ fn # "resolveTemperatureTargetUnit"
       => systemConversion = "none" /\ deviceConversion = "follow_system"
  /\ clusterName \in InputClusters
  /\ attributeName \in InputAttributes
  /\ fn # "isTemperatureAttribute" => clusterName = <<>> /\ attributeName = <<>>
  /\ normalized = Undefined
  /\ conversion = NoConversion
  /\ target = Undefined
  /\ symbol = <<>>
  /\ isTemperature = FALSE
  /\ origin = NoOrigin

Normalize ==
  /\ pc = "ready" /\ fn = "normalizeTemperatureUnit"
  /\ normalized' = normalizeTemperatureUnit(unit)
  /\ pc' = "done"
  /\ UNCHANGED <<fn, unit, value, fromUnit, toUnit, systemConversion,
                 deviceConversion, clusterName, attributeName,
                 conversion, target, symbol, isTemperature, origin>>

Convert ==
  /\ pc = "ready" /\ fn = "convertTemperatureValue"
  /\ conversion' = convertTemperatureValue(value, fromUnit, toUnit)
  /\ pc' = "done"
  /\ UNCHANGED <<fn, unit, value, fromUnit, toUnit, systemConversion,
                 deviceConversion, clusterName, attributeName,
                 normalized, target, symbol, isTemperature, origin>>

\* the caller converts the returned value back: source and target swapped
ConvertBack ==
  /\ pc = "done" /\ fn = "convertTemperatureValue"
  /\ origin' = [value |-> value, conversion |-> conversion]
  /\ value' = conversion.value
  /\ fromUnit' = toUnit
  /\ toUnit' = fromUnit
  /\ conversion' = convertTemperatureValue(conversion.value, toUnit, fromUnit)
  /\ pc' = "back"
  /\ UNCHANGED <<fn, unit, systemConversion, deviceConversion, clusterName,
                 attributeName, normalized, target, symbol, isTemperature>>

Resolve ==
  /\ pc = "ready" /\ fn = "resolveTemperatureTargetUnit"
  /\ target' = resolveTemperatureTargetUnit(systemConversion, deviceConversion)
  /\ pc' = "done"
  /\ UNCHANGED <<fn, unit, value, fromUnit, toUnit, systemConversion,
                 deviceConversion, clusterName, attributeName,
                 normalized, conversion, symbol, isTemperature, origin>>

Symbol ==
  /\ pc = "ready" /\ fn = "toTemperatureUnitSymbol"
  /\ symbol' = toTemperatureUnitSymbol(unit)
  /\ pc' = "done"
  /\ UNCHANGED <<fn, unit, value, fromUnit, toUnit, systemConversion,
                 deviceConversion, clusterName, attributeName,
                 normalized, conversion, target, isTemperature, origin>>

IsTemperature ==
  /\ pc = "ready" /\ fn = "isTemperatureAttribute"
  /\ isTemperature' = isTemperatureAttribute(clusterName, attributeName)
  /\ pc' = "done"
  /\ UNCHANGED <<fn, unit, value, fromUnit, toUnit, systemConversion,
                 deviceConversion, clusterName, attributeName,
                 normalized, conversion, target, symbol, origin>>

Next ==
  \/ Normalize
  \/ Convert
  \/ ConvertBack
  \/ Resolve
  \/ Symbol
  \/ IsTemperature

Spec == Init /\ [][Next]_vars

(***************************************************************************)
(* Shorthands of the properties.                                           *)
(***************************************************************************)
UnitC == <<"C">>

UnitF == <<"F">>

\* a call of f has returned
Returned(f) == fn = f /\ pc \in {"done", "back"}

\* v * 9/5 + 32 and (v - 32) * 5/9 over the rationals, from numerator and denominator
ExpectedFahrenheit(v) == Rat(9 * v[1] + 160 * v[2], 5 * v[2])

ExpectedCelsius(v) == Rat(5 * (v[1] - 32 * v[2]), 9 * v[2])

\* the unit has an entry in both converter tables
Supported(u) ==
  LET n == normalizeTemperatureUnit(u)
  IN includes(CelsiusUnits, n) \/ includes(FahrenheitUnits, n)

\* the source unit as the unconverted result reports it
SourceUnitIfCorF(u) ==
  LET n == normalizeTemperatureUnit(u)
  IN IF n \in {UnitC, UnitF} THEN n ELSE Undefined

(***************************************************************************)
(* C1: resolveTemperatureTargetUnit lets the device setting override the   *)
(* system setting: device 'none' gives undefined, 'force_celsius' gives    *)
(* 'C', 'force_fahrenheit' gives 'F' whatever the system setting is; only  *)
(* for 'follow_system' does the system setting decide ('celsius' gives     *)
(* 'C', 'fahrenheit' gives 'F', 'none' gives undefined).                   *)
(***************************************************************************)
C1_DeviceOverridesSystem ==
  Returned("resolveTemperatureTargetUnit") =>
    /\ deviceConversion = "none" => target = Undefined
    /\ deviceConversion = "force_celsius" => target = UnitC
    /\ deviceConversion = "force_fahrenheit" => target = UnitF
    /\ deviceConversion = "follow_system" =>
         /\ systemConversion = "celsius" => target = UnitC
         /\ systemConversion = "fahrenheit" => target = UnitF
         /\ systemConversion = "none" => target = Undefined

C1_Witness ==
  /\ Returned("resolveTemperatureTargetUnit")
  /\ systemConversion = "celsius"
  /\ deviceConversion = "force_fahrenheit"
  /\ target = UnitF

(***************************************************************************)
(* C2: from a Celsius alias to a Fahrenheit alias convertTemperatureValue  *)
(* returns v * 9/5 + 32 with converted true, from a Fahrenheit alias to a  *)
(* Celsius alias (v - 32) * 5/9 with converted true; (0,'C','F') gives     *)
(* {32, true, 'F'}, (212,'F','C') gives {100, true, 'C'} and               *)
(* (-40,'C','F') gives {-40, true, 'F'}.                                   *)
(***************************************************************************)
C2_ConvertsBetweenCelsiusAndFahrenheit ==
  Returned("convertTemperatureValue") =>
    /\ fromUnit \in CelsiusAliases /\ toUnit \in FahrenheitAliases =>
         conversion.converted /\ conversion.value = ExpectedFahrenheit(value)
    /\ fromUnit \in FahrenheitAliases /\ toUnit \in CelsiusAliases =>
         conversion.converted /\ conversion.value = ExpectedCelsius(value)
    /\ value = Num(0) /\ fromUnit = UnitC /\ toUnit = UnitF =>
         conversion = [value |-> Num(32), converted |-> TRUE, unit |-> UnitF]
    /\ value = Num(212) /\ fromUnit = UnitF /\ toUnit = UnitC =>
         conversion = [value |-> Num(100), converted |-> TRUE, unit |-> UnitC]
    /\ value = Num(-40) /\ fromUnit = UnitC /\ toUnit = UnitF =>
         conversion = [value |-> Num(-40), converted |-> TRUE, unit |-> UnitF]

C2_Witness ==
  /\ Returned("convertTemperatureValue")
  /\ value = Num(10)
  /\ fromUnit = <<"d", "e", "g", "r", "e", "e", " ", "c", "e", "l", "s", "i", "u", "s">>
  /\ toUnit \in Variants(FahrenheitUnits[4])
  /\ conversion.converted
  /\ conversion.value = Num(50)

(***************************************************************************)
(* C3: when the source or the target unit is missing (undefined, null,     *)
(* empty) or unsupported (no converter-table entry), nothing is converted: *)
(* converted is false, the value is the input value, and the unit is the   *)
(* normalized source unit when that is 'C' or 'F' and undefined otherwise. *)
(***************************************************************************)
C3_MissingOrUnsupportedUnitNotConverted ==
  (/\ Returned("convertTemperatureValue")
   /\ \/ fromUnit \in MissingUnits
      \/ toUnit \in MissingUnits
      \/ ~Supported(fromUnit)
      \/ ~Supported(toUnit))
  => conversion = [value |-> value, converted |-> FALSE,
                   unit |-> SourceUnitIfCorF(fromUnit)]

C3_Witness ==
  /\ Returned("convertTemperatureValue")
  /\ value = Num(10)
  /\ fromUnit = UnitC
  /\ toUnit = <<"K">>
  /\ conversion = [value |-> Num(10), converted |-> FALSE, unit |-> UnitC]

(***************************************************************************)
(* C4: convertTemperatureValue(v, u, u) returns v with converted false     *)
(* for every unit u, recognized or not or missing, and the unit is the     *)
(* normalized u when that is 'C' or 'F' and undefined otherwise.           *)
(***************************************************************************)
C4_SameUnitIsIdentity ==
  Returned("convertTemperatureValue") /\ fromUnit = toUnit =>
    conversion = [value |-> value, converted |-> FALSE,
                  unit |-> SourceUnitIfCorF(fromUnit)]

C4_Witness ==
  /\ Returned("convertTemperatureValue")
  /\ fromUnit = toUnit
  /\ fromUnit \in Variants(FahrenheitUnits[3])
  /\ value = Num(212)
  /\ conversion = [value |-> Num(212), converted |-> FALSE, unit |-> Undefined]

(***************************************************************************)
(* C5 as stated: normalizeTemperatureUnit returns 'C' for every Celsius    *)
(* alias (C, CELSIUS, °C, DEGREE_CELSIUS, DEGREES_CELSIUS) and 'F' for     *)
(* every Fahrenheit alias, in any letter case and with spaces or hyphens   *)
(* in place of underscores.                                                *)
(***************************************************************************)
C5_EveryAliasNormalizesToLetter ==
  Returned("normalizeTemperatureUnit") =>
    /\ unit \in CelsiusAliases => normalized = UnitC
    /\ unit \in FahrenheitAliases => normalized = UnitF

(***************************************************************************)
(* C5 as amended: normalizeTemperatureUnit returns 'C' for the aliases C,  *)
(* CELSIUS and °C and 'F' for F, FAHRENHEIT and °F, in any letter case;    *)
(* for DEGREE_CELSIUS, DEGREES_CELSIUS, DEGREE_FAHRENHEIT and              *)
(* DEGREES_FAHRENHEIT, in any letter case and with a space or a hyphen in  *)
(* place of the underscore, it returns the alias itself in upper case with *)
(* the underscore, which is the spelling the converter tables list.        *)
(***************************************************************************)
C5_ShortAliasesNormalizeToLetter ==
  Returned("normalizeTemperatureUnit") =>
    /\ unit \in ShortCelsiusAliases => normalized = UnitC
    /\ unit \in ShortFahrenheitAliases => normalized = UnitF
    /\ \A i \in {3, 4} :
         /\ unit \in Variants(CelsiusUnits[i]) => normalized = CelsiusUnits[i]
         /\ unit \in Variants(FahrenheitUnits[i]) => normalized = FahrenheitUnits[i]

C5_Witness ==
  /\ Returned("normalizeTemperatureUnit")
  /\ unit = <<"d", "e", "g", "r", "e", "e", "-", "c", "e", "l", "s", "i", "u", "s">>
  /\ normalized = CelsiusUnits[3]

(***************************************************************************)
(* C6: toTemperatureUnitSymbol(u) is '°C' exactly when                     *)
(* normalizeTemperatureUnit(u) is 'C', '°F' exactly when it is 'F', and    *)
(* the empty string for every other input; and normalizing the symbol      *)
(* gives normalizeTemperatureUnit(u) back whenever that is 'C' or 'F'.     *)
(***************************************************************************)
C6_SymbolInvertsNormalization ==
  Returned("toTemperatureUnitSymbol") =>
    LET n == normalizeTemperatureUnit(unit)
    IN /\ symbol = <<"°", "C">> <=> n = UnitC
       /\ symbol = <<"°", "F">> <=> n = UnitF
       /\ n \notin {UnitC, UnitF} => symbol = <<>>
       /\ n \in {UnitC, UnitF} => normalizeTemperatureUnit(symbol) = n
       /\ unit \in MissingUnits \cup Variants(<<"K">>)
                   \cup Variants(<<"K", "E", "L", "V", "I", "N">>)
            => symbol = <<>>

C6_Witness ==
  /\ Returned("toTemperatureUnitSymbol")
  /\ unit = <<"f", "a", "h", "r", "e", "n", "h", "e", "i", "t">>
  /\ symbol = <<"°", "F">>

(***************************************************************************)
(* C7: isTemperatureAttribute is true exactly for the cluster              *)
(* 'temperaturemeasurement' (letter case ignored) with the attribute       *)
(* 'measuredValue' and for the cluster 'thermostat' (letter case ignored)  *)
(* with one of the 14 listed attribute names; the attribute name is        *)
(* compared exactly, letter case included.                                 *)
(***************************************************************************)
EqualsIgnoringCase(a, b) ==
  /\ Len(a) = Len(b)
  /\ \A i \in 1..Len(a) : toUpperCaseChar(a[i]) = toUpperCaseChar(b[i])

C7_ExactlyTheListedAttributes ==
  Returned("isTemperatureAttribute") =>
    (isTemperature <=>
       \/ /\ EqualsIgnoringCase(clusterName,
               <<"T", "e", "m", "p", "e", "r", "a", "t", "u", "r", "e",
                 "M", "e", "a", "s", "u", "r", "e", "m", "e", "n", "t">>)
          /\ attributeName = TemperatureMeasurementAttribute
       \/ /\ EqualsIgnoringCase(clusterName,
               <<"T", "h", "e", "r", "m", "o", "s", "t", "a", "t">>)
          /\ \E i \in 1..14 : attributeName = ThermostatAttributes[i])

C7_Witness ==
  /\ Returned("isTemperatureAttribute")
  /\ clusterName = <<"T", "H", "E", "R", "M", "O", "S", "T", "A", "T">>
  /\ attributeName = ThermostatAttributes[14]
  /\ isTemperature

(***************************************************************************)
(* C8: converting v from 'C' to 'F' and the resulting value from 'F' back  *)
(* to 'C' returns v, and both steps report converted true.                 *)
(***************************************************************************)
C8_RoundTrip ==
  (/\ fn = "convertTemperatureValue"
   /\ pc = "back"
   /\ fromUnit = UnitF
   /\ toUnit = UnitC)
  => /\ origin.conversion.converted
     /\ conversion.converted
     /\ conversion.value = origin.value

C8_Witness ==
  /\ fn = "convertTemperatureValue"
  /\ pc = "back"
  /\ fromUnit = UnitF
  /\ toUnit = UnitC
  /\ origin.value = Rat(1, 2)
  /\ origin.conversion.value = Rat(329, 10)
  /\ conversion.value = Rat(1, 2)

C10_AliasesOfOneUnitNotConverted ==
  (/\ Returned("convertTemperatureValue")
   /\ \/ fromUnit \in CelsiusAliases /\ toUnit \in CelsiusAliases
      \/ fromUnit \in FahrenheitAliases /\ toUnit \in FahrenheitAliases)
  => ~conversion.converted /\ conversion.value = value

====
